---- MODULE Spec2Model ----
(***************************************************************************)
(* Dota 2 update monitor: the deduplicating UpdateProcessor with its state *)
(* file, the dota2Update handler of runLiveMode that hands admitted        *)
(* updates to DiscordNotifier.sendUpdate, and the SteamMonitor session     *)
(* with its reconnect timers.                                              *)
(***************************************************************************)
EXTENDS Integers, FiniteSets, Sequences, TLC

\* ------------------------------------------------------------------ bounds
\* Largest changenumber an upstream event carries in the model.
MaxCn == 2
\* Largest number of sendUpdate invocations recorded per changenumber.
MaxSends == 2
\* Largest number of reconnect timers pending at once.
MaxTimers == 2
\* Largest value of #reconnectAttempts explored (the cap is reached at 7).
MaxAttempts == 8
\* Largest number of logOn attempts in flight at once.
MaxInFlight == 2
\* Largest number of priming fetches pending at once.
MaxPriming == 1
\* Largest number of Discord webhooks configured.
MaxWebhooks == 2
\* Largest number of stop signals (SIGINT, SIGTERM) delivered to one process.
MaxSignals == 2
\* Largest number of on-demand getProductInfo fetches pending at once.
MaxFetches == 3
\* Largest number of sendUpdate calls awaiting their network calls at once.
MaxAwaiting == 2

\* --------------------------------------------------------- program values
\* JS null / undefined changenumber, and the null #lastChangenumber.
Null == -1
\* state.json exists and JSON.parse throws on it (torn or truncated write).
Corrupt == -2
\* state.json does not exist.
Absent == -3
BASE_RECONNECT_DELAY == 5000
\* The tracked app, and some other app of the PICS feed.
DOTA2_APP_ID == 570
OtherAppId == 730
AppIds == {DOTA2_APP_ID, OtherAppId}
MAX_RECONNECT_DELAY == 300000

\* Changenumbers an event can carry: null, or a non-negative integer.
Changenumbers == {Null} \cup (0..MaxCn)
\* Outcome of writeFileSync: written, thrown with the file untouched, thrown
\* with the file left truncated.
WriteOutcomes == {"ok", "fail", "torn"}

VARIABLES
    up,                 \* the process is running
    file,               \* content of state.json
    lastChangenumber,   \* UpdateProcessor.#lastChangenumber
    pc,                 \* position of the dota2Update handler
    pending,            \* the update returned by process(), awaiting sendUpdate
    sendCount,          \* history: sendUpdate invocations per changenumber
    saveAttempted,      \* history: changenumbers #saveState was called with
    runMax,             \* history: max of loaded cursor and changenumbers seen this run
    heldMax,            \* history: highest cursor ever held in memory or loaded
    lastEvent,          \* history: the last process() call of this run and its effect
    webhooks,           \* DiscordNotifier.#webhooks.length
    lastSend,           \* history: the sendUpdate call that followed the last process(), and what it returned
    connected,          \* SteamMonitor.#connected
    reconnectAttempts,  \* SteamMonitor.#reconnectAttempts
    timers,             \* reconnect timers pending (setTimeout not yet fired)
    logOns,             \* client.logOn attempts in flight
    session,            \* the Steam client holds a logged-on session
    priming,            \* priming getProductInfo calls not yet settled
    lastDelay,          \* history: delay computed by the last #scheduleReconnect
    sinceLogin,         \* history: #scheduleReconnect calls since the last loggedOn
    disconnectCalled,   \* history: disconnect() has been called
    connectAfterDisconnect, \* history: connect() ran after disconnect()
    connectInFlight,    \* history: a timer called connect() with a logOn in flight
    started,            \* runLiveMode has called monitor.connect()
    awaiting,           \* history: an 'error'/'disconnected' not yet followed by connect() or 'loggedOn'
    readyOwed,          \* history: 'loggedOn' events whose 'ready' has not been emitted yet
    lastReady,          \* history: the last 'ready' emission: "primed", "unprimed" or "none"
    urlSet,             \* config: DISCORD_WEBHOOK_URL is non-empty
    phase,              \* runLiveMode: "boot" (before validateConfig), "running", "exited"
    exitCode,           \* the code process.exit was called with, Null while alive
    shutdownRuns,       \* history: invocations of shutdown(), each calling monitor.disconnect()
    destroyCalls,       \* history: calls of notifier.destroy()
    shutdownTrace,      \* history: the steps the last shutdown() invocation reached
    fetchQueue,         \* changenumbers of the #fetchProductInfo calls not yet settled
    lastStep,           \* history: the last PICS handler step: its input, what it emitted and fetched
    testPc,             \* position of runTestMode: "off" in live mode
    upstream,           \* history: changenumbers carried by upstream data (events, PICS cache)
    rawData,            \* the data of the raw event given to process()
    normalized,         \* what process() made of rawData
    inFlight,           \* sendUpdate calls started by the handler and not yet settled
    lastStarted,        \* history: the known changenumber sendUpdate was last started for in this run
    prevStarted         \* history: the known changenumber it was started for before that

procVars == <<up, file, lastChangenumber, pc, pending, sendCount, saveAttempted,
              runMax, heldMax, lastEvent, webhooks, lastSend>>
monVars == <<connected, reconnectAttempts, timers, logOns, session, priming,
             lastDelay, sinceLogin, disconnectCalled, connectAfterDisconnect,
             connectInFlight, started, awaiting, readyOwed, lastReady>>
lifeVars == <<urlSet, phase, exitCode, shutdownRuns, destroyCalls, shutdownTrace>>
feedVars == <<fetchQueue, lastStep>>
testVars == <<testPc, upstream>>
normVars == <<rawData, normalized>>
orderVars == <<inFlight, lastStarted, prevStarted>>
vars == <<procVars, monVars, lifeVars, feedVars, testVars, normVars, orderVars>>

Max(a, b) == IF a >= b THEN a ELSE b
Min(a, b) == IF a <= b THEN a ELSE b

\* ------------------------------------------------------- UpdateProcessor
\* #loadState: missing file, unreadable file and a missing field all give null.
LoadStateReadsGarbage(f) == IF f = Absent THEN Null ELSE IF f = Corrupt THEN 0 ELSE f
LoadState(f) == IF f = Absent \/ f = Corrupt THEN Null ELSE f

\* JS truthiness of a changenumber: null, undefined and 0 are falsy.
Truthy(cn) == cn # Null /\ cn # 0

\* The deduplication test of process(): the event is skipped.
AlwaysFresh(cn, last) == FALSE
IsDuplicate(cn, last) == Truthy(cn) /\ last # Null /\ cn <= last

\* The guard of the "persist state" block of process().
PersistAlways(cn) == TRUE
ShouldPersist(cn) == Truthy(cn)

\* #saveState: writeFileSync inside try/catch; w is what the file system does.
SaveState(f, cn, w) ==
    CASE w = "ok"   -> cn
      [] w = "fail" -> f
      [] w = "torn" -> Corrupt

NoEvent == [cn |-> Null, saved |-> "none", before |-> Null,
            fileBefore |-> Absent, maxBefore |-> Null, admitted |-> FALSE,
            after |-> Null, fileAfter |-> Absent, seen |-> FALSE]

NoSend == [delivered |-> FALSE, returned |-> "none", seen |-> FALSE]

\* The processor and the notifier after construction on a first-ever run, the
\* number of webhooks taken from the set W and state.json from the set F.
InitProcFrom(W, F) ==
    /\ up = TRUE
    /\ file \in F
    /\ lastChangenumber = LoadState(Absent)
    /\ pc = "idle"
    /\ pending = Null
    /\ sendCount = [n \in Changenumbers |-> 0]
    /\ saveAttempted = {}
    /\ runMax = Null
    /\ heldMax = Null
    /\ lastEvent = NoEvent
    /\ webhooks \in W
    /\ lastSend = NoSend

\* Live mode as configured by the one DISCORD_WEBHOOK_URL validateConfig asks for.
InitProcWith(W) == InitProcFrom(W, {Absent})
InitProc == InitProcWith({1})

\* runLiveMode's dota2Update handler up to the return of processor.process():
\* deduplicate, advance #lastChangenumber, #saveState.  Both SteamMonitor
\* paths (appUpdate, changelist fetch) emit into this one handler; cn is the
\* changenumber the event carries, whichever path produced it.
Dota2UpdateHandler(cn, w) ==
    /\ up /\ pc = "idle"
    /\ sendCount[cn] < MaxSends
    /\ LET admitted == ~IsDuplicate(cn, lastChangenumber)
           persist  == admitted /\ ShouldPersist(cn)
           newLast  == IF persist THEN cn ELSE lastChangenumber
           newFile  == IF persist THEN SaveState(file, cn, w) ELSE file
       IN /\ lastChangenumber' = newLast
          /\ file' = newFile
          /\ saveAttempted' = IF persist THEN saveAttempted \cup {cn} ELSE saveAttempted
          /\ pc' = IF admitted THEN "handoff" ELSE "idle"
          /\ pending' = IF admitted THEN cn ELSE Null
          /\ runMax' = Max(runMax, cn)
          /\ heldMax' = Max(heldMax, newLast)
          /\ lastEvent' = [cn |-> cn, saved |-> IF persist THEN w ELSE "none",
                           before |-> lastChangenumber, fileBefore |-> file,
                           maxBefore |-> runMax, admitted |-> admitted,
                           after |-> newLast, fileAfter |-> newFile, seen |-> TRUE]
          /\ lastSend' = NoSend
    /\ UNCHANGED <<up, sendCount, webhooks, monVars, lifeVars, feedVars, testVars, normVars, orderVars>>

\* What sendUpdate resolves to, with n webhooks configured, okCount of their
\* sends fulfilled and #buildEmbed returning (embedOk) or throwing.  A rejected
\* webhook.send is caught per webhook, so Promise.all never rejects.
SendUpdateReturns(n, okCount, embedOk) ==
    IF n = 0 THEN "false"
    ELSE IF ~embedOk THEN "false"
    ELSE "true"

\* The handler's call of notifier.sendUpdate(update) and its result: okCount
\* webhooks receive the embed, the others reject.
SendUpdate(okCount, embedOk) ==
    /\ up /\ pc = "handoff"
    /\ okCount \in 0..webhooks
    /\ (webhooks = 0 \/ ~embedOk) => okCount = 0
    /\ webhooks = 0 => embedOk
    /\ sendCount' = [sendCount EXCEPT ![pending] = @ + 1]
    /\ lastSend' = [delivered |-> okCount >= 1,
                    returned |-> SendUpdateReturns(webhooks, okCount, embedOk),
                    seen |-> TRUE]
    /\ pc' = "idle"
    /\ pending' = Null
    /\ UNCHANGED <<up, file, lastChangenumber, saveAttempted, runMax, heldMax,
                   lastEvent, webhooks, monVars, lifeVars, feedVars, testVars, normVars, orderVars>>

\* The dota2Update handler up to its await, entered whether or not earlier
\* deliveries are still awaiting their network calls: process(event) and, for
\* an admitted event, the start of notifier.sendUpdate(update), which runs to
\* its own await (the webhook sends are started) before the handler yields.
UpdateArrives(cn, w) ==
    /\ up
    /\ sendCount[cn] < MaxSends
    /\ inFlight < MaxAwaiting
    /\ LET admitted == ~IsDuplicate(cn, lastChangenumber)
           persist  == admitted /\ ShouldPersist(cn)
           newLast  == IF persist THEN cn ELSE lastChangenumber
           newFile  == IF persist THEN SaveState(file, cn, w) ELSE file
           known    == admitted /\ cn # Null
       IN /\ ~persist => w = "ok"
          /\ lastChangenumber' = newLast
          /\ file' = newFile
          /\ saveAttempted' = IF persist THEN saveAttempted \cup {cn} ELSE saveAttempted
          /\ runMax' = Max(runMax, cn)
          /\ heldMax' = Max(heldMax, newLast)
          /\ lastEvent' = [cn |-> cn, saved |-> IF persist THEN w ELSE "none",
                           before |-> lastChangenumber, fileBefore |-> file,
                           maxBefore |-> runMax, admitted |-> admitted,
                           after |-> newLast, fileAfter |-> newFile, seen |-> TRUE]
          /\ sendCount' = IF admitted THEN [sendCount EXCEPT ![cn] = @ + 1]
                                      ELSE sendCount
          /\ inFlight' = IF admitted THEN inFlight + 1 ELSE inFlight
          /\ lastStarted' = IF known THEN cn ELSE lastStarted
          /\ prevStarted' = IF known THEN lastStarted ELSE prevStarted
    /\ UNCHANGED <<up, pc, pending, webhooks, lastSend, monVars, lifeVars, feedVars,
                   testVars, normVars>>

\* One awaited sendUpdate settles and its handler invocation ends.
SendSettles ==
    /\ up
    /\ inFlight >= 1
    /\ inFlight' = inFlight - 1
    /\ UNCHANGED <<procVars, lastStarted, prevStarted, monVars, lifeVars, feedVars,
                   testVars, normVars>>

\* The process dies: memory is lost, state.json stays.
Crash ==
    /\ up
    /\ up' = FALSE
    /\ lastChangenumber' = Null
    /\ pc' = "idle"
    /\ pending' = Null
    /\ lastEvent' = NoEvent
    /\ lastSend' = NoSend
    /\ UNCHANGED <<file, sendCount, saveAttempted, runMax, heldMax, webhooks, monVars, lifeVars, feedVars, testVars, normVars, orderVars>>

\* The text #saveState writes, JSON.stringify(state, null, 2), as its tokens:
\* the object's braces and its three members, lastChangenumber first.
Tok(t, v) == [t |-> t, v |-> v]
Serialize(cn) ==
    << Tok("{", 0), Tok("lastChangenumber", cn), Tok("lastUpdated", 0),
       Tok("appId", 0), Tok("}", 0) >>

\* What #loadState finds in a file holding text: JSON.parse accepts an object
\* only when it is closed, and state.lastChangenumber is then read from it.
\* An empty file and an unclosed object make JSON.parse throw.
JsonValid(text) ==
    /\ Len(text) >= 2
    /\ text[1].t = "{"
    /\ text[Len(text)].t = "}"
FileOf(text) ==
    IF JsonValid(text) /\ text[2].t = "lastChangenumber" THEN text[2].v ELSE Corrupt

\* The process dies inside #saveState(cn), called by process() for an
\* admitted event.  writeFileSync opens state.json truncating it and writes
\* the text; the crash comes before the open (opened = FALSE) or after k
\* tokens of the text have reached the disk.  Memory is lost.
CrashDuringSave(cn, opened, k) ==
    /\ up /\ pc = "idle"
    /\ ~IsDuplicate(cn, lastChangenumber)
    /\ ShouldPersist(cn)
    /\ k \in 0..Len(Serialize(cn))
    /\ ~opened => k = 0
    /\ LET newFile == IF opened THEN FileOf(SubSeq(Serialize(cn), 1, k)) ELSE file
       IN /\ file' = newFile
          /\ lastEvent' = [cn |-> cn, saved |-> "crash",
                           before |-> lastChangenumber, fileBefore |-> file,
                           maxBefore |-> runMax, admitted |-> TRUE,
                           after |-> cn, fileAfter |-> newFile, seen |-> TRUE]
    /\ up' = FALSE
    /\ lastChangenumber' = Null
    /\ pc' = "idle"
    /\ pending' = Null
    /\ lastSend' = NoSend
    /\ saveAttempted' = saveAttempted \cup {cn}
    /\ runMax' = Max(runMax, cn)
    /\ heldMax' = Max(heldMax, cn)
    /\ UNCHANGED <<sendCount, webhooks, monVars, lifeVars, feedVars, testVars, normVars, orderVars>>

\* The process starts again: new UpdateProcessor() runs #loadState.
Restart ==
    /\ ~up
    /\ up' = TRUE
    /\ lastChangenumber' = LoadState(file)
    /\ runMax' = LoadState(file)
    /\ heldMax' = Max(heldMax, LoadState(file))
    /\ UNCHANGED <<file, pc, pending, sendCount, saveAttempted, lastEvent, webhooks,
                   lastSend, monVars, lifeVars, feedVars, testVars, normVars, orderVars>>

InitMon ==
    /\ connected = FALSE
    /\ reconnectAttempts = 0
    /\ timers = 0
    /\ logOns = 0
    /\ session = FALSE
    /\ priming = 0
    /\ lastDelay = 0
    /\ sinceLogin = 0
    /\ disconnectCalled = FALSE
    /\ connectAfterDisconnect = FALSE
    /\ connectInFlight = FALSE
    /\ started = FALSE
    /\ awaiting = FALSE
    /\ readyOwed = 0
    /\ lastReady = "none"

\* --------------------------------------------------------- SteamMonitor
\* The delay #scheduleReconnect computes from the attempt counter.
DelayAfterIncrement(attempts) ==
    Min(BASE_RECONNECT_DELAY * 2^(attempts + 1), MAX_RECONNECT_DELAY)
ReconnectDelay(attempts) ==
    Min(BASE_RECONNECT_DELAY * 2^attempts, MAX_RECONNECT_DELAY)

\* #scheduleReconnect: compute the delay, count the attempt, arm a timer.
\* The bounds sit on the upstream event, never on the timer: an event is taken
\* only if every timer then pending still has room to call connect().
ScheduleNoTimer ==
    /\ reconnectAttempts < MaxAttempts
    /\ lastDelay' = ReconnectDelay(reconnectAttempts)
    /\ reconnectAttempts' = reconnectAttempts + 1
    /\ sinceLogin' = sinceLogin + 1
    /\ timers' = timers
    /\ awaiting' = TRUE
ScheduleReconnect ==
    /\ reconnectAttempts < MaxAttempts
    /\ timers < MaxTimers
    /\ lastDelay' = ReconnectDelay(reconnectAttempts)
    /\ reconnectAttempts' = reconnectAttempts + 1
    /\ sinceLogin' = sinceLogin + 1
    /\ timers' = timers + 1
    /\ logOns' + timers' <= MaxInFlight
    /\ awaiting' = TRUE

\* connect(): client.logOn starts an attempt; byTimer tells who called.
Connect(byTimer) ==
    /\ logOns < MaxInFlight
    /\ logOns' = logOns + 1
    /\ connectAfterDisconnect' = (connectAfterDisconnect \/ disconnectCalled)
    /\ connectInFlight' = (connectInFlight \/ (byTimer /\ logOns >= 1))
    /\ awaiting' = FALSE

\* runLiveMode's monitor.connect() at the end of start-up.
StartConnect ==
    /\ ~started
    /\ started' = TRUE
    /\ Connect(FALSE)
    /\ UNCHANGED <<connected, reconnectAttempts, timers, session, priming,
                   lastDelay, sinceLogin, disconnectCalled, readyOwed, lastReady,
                   procVars, lifeVars, feedVars, testVars, normVars, orderVars>>

\* The 'loggedOn' handler: mark connected, reset the counter, start priming.
LoggedOn ==
    /\ logOns >= 1
    /\ priming < MaxPriming
    /\ logOns' = logOns - 1
    /\ session' = TRUE
    /\ connected' = TRUE
    /\ reconnectAttempts' = 0
    /\ sinceLogin' = 0
    /\ priming' = priming + 1
    /\ awaiting' = FALSE
    /\ readyOwed' = readyOwed + 1
    /\ UNCHANGED <<timers, lastDelay, disconnectCalled, connectAfterDisconnect,
                   connectInFlight, started, lastReady, procVars, lifeVars, feedVars, testVars, normVars, orderVars>>

\* Whether the priming promise emits 'ready' when it settles: the then branch
\* (ok) and the catch branch (not ok) both do.
ReadyOnSuccessOnly(ok) == ok
EmitsReady(ok) == IF ok THEN TRUE ELSE TRUE

\* The priming getProductInfo settles (then or catch): 'ready' is emitted.
PrimingSettled(ok) ==
    /\ priming >= 1
    /\ priming' = priming - 1
    /\ IF EmitsReady(ok)
         THEN /\ readyOwed' = readyOwed - 1
              /\ lastReady' = IF ok THEN "primed" ELSE "unprimed"
         ELSE UNCHANGED <<readyOwed, lastReady>>
    /\ UNCHANGED <<connected, reconnectAttempts, timers, logOns, session,
                   lastDelay, sinceLogin, disconnectCalled,
                   connectAfterDisconnect, connectInFlight, started, awaiting,
                   procVars, lifeVars, feedVars, testVars, normVars, orderVars>>

\* The 'error' handler.  The client reports a fatal error of its session or
\* of a logOn attempt in flight, which ends it.
ErrorEvent ==
    /\ session \/ logOns >= 1
    /\ \/ session /\ session' = FALSE /\ logOns' = logOns
       \/ logOns >= 1 /\ logOns' = logOns - 1 /\ session' = session
    /\ connected' = FALSE
    /\ ScheduleReconnect
    /\ UNCHANGED <<priming, disconnectCalled, connectAfterDisconnect,
                   connectInFlight, started, readyOwed, lastReady, procVars, lifeVars, feedVars, testVars, normVars, orderVars>>

\* The 'disconnected' handler.  The client lost its session; constructed with
\* autoRelogin: true it may start a logOn of its own (relogin).
DisconnectedEvent(relogin) ==
    /\ session
    /\ session' = FALSE
    /\ IF relogin THEN logOns < MaxInFlight /\ logOns' = logOns + 1
                  ELSE logOns' = logOns
    /\ connected' = FALSE
    /\ ScheduleReconnect
    /\ UNCHANGED <<priming, disconnectCalled, connectAfterDisconnect,
                   connectInFlight, started, readyOwed, lastReady, procVars, lifeVars, feedVars, testVars, normVars, orderVars>>

\* The setTimeout callback of #scheduleReconnect.
TimerFires ==
    /\ timers >= 1
    /\ timers' = timers - 1
    /\ IF ~connected
         THEN Connect(TRUE)
         ELSE UNCHANGED <<logOns, connectAfterDisconnect, connectInFlight, awaiting>>
    /\ UNCHANGED <<connected, reconnectAttempts, session, priming, lastDelay,
                   sinceLogin, disconnectCalled, started, readyOwed, lastReady,
                   procVars, lifeVars, feedVars, testVars, normVars, orderVars>>

\* disconnect(): client.logOff() ends the session and any attempt in flight.
DisconnectBody ==
    /\ session' = FALSE
    /\ logOns' = 0
    /\ connected' = FALSE
    /\ disconnectCalled' = TRUE
    /\ UNCHANGED <<reconnectAttempts, timers, priming, lastDelay, sinceLogin,
                   connectAfterDisconnect, connectInFlight, started, awaiting,
                   readyOwed, lastReady>>
Disconnect ==
    /\ started
    /\ DisconnectBody
    /\ UNCHANGED <<procVars, lifeVars, feedVars, testVars, normVars, orderVars>>

\* ------------------------------------------------------------ PICS feed
\* The filter of both PICS handlers: appid !== DOTA2_APP_ID returns,
\* apps.includes(DOTA2_APP_ID) goes on.
AnyAppTracked(appid) == TRUE
IsTracked(appid) == appid = DOTA2_APP_ID

\* a ?? b of JS: b only when a is null or undefined (0 is kept).
Coalesce(a, b) == IF a = Null THEN b ELSE a

NoStep == [kind |-> "none", tracked |-> FALSE, emitted |-> 0, appid |-> Null,
           changenumber |-> Null, started |-> 0, data |-> FALSE]

InitFeed ==
    /\ fetchQueue = <<>>
    /\ lastStep = NoStep

\* The 'appUpdate' handler: an update of app appid whose data carries the
\* changenumber dcn (Null when it has none).
AppUpdate(appid, dcn) ==
    /\ lastStep' = IF IsTracked(appid)
                     THEN [kind |-> "appUpdate", tracked |-> appid = DOTA2_APP_ID,
                           emitted |-> 1, appid |-> appid,
                           changenumber |-> Coalesce(dcn, Null),
                           started |-> 0, data |-> TRUE]
                     ELSE [kind |-> "appUpdate", tracked |-> appid = DOTA2_APP_ID,
                           emitted |-> 0, appid |-> Null, changenumber |-> Null,
                           started |-> 0, data |-> FALSE]
    /\ UNCHANGED <<fetchQueue, procVars, monVars, lifeVars, testVars, normVars, orderVars>>

\* The 'changelist' handler: changelist cn affecting the set apps; when the
\* tracked app is among them it calls #fetchProductInfo(cn), which starts
\* one getProductInfo and returns at its await.
Changelist(cn, apps) ==
    /\ IF \E a \in apps : IsTracked(a)
         THEN /\ Len(fetchQueue) < MaxFetches
              /\ fetchQueue' = Append(fetchQueue, cn)
              /\ lastStep' = [kind |-> "changelist", tracked |-> DOTA2_APP_ID \in apps,
                              emitted |-> 0, appid |-> Null, changenumber |-> Null,
                              started |-> 1, data |-> FALSE]
         ELSE /\ fetchQueue' = fetchQueue
              /\ lastStep' = [kind |-> "changelist", tracked |-> DOTA2_APP_ID \in apps,
                              emitted |-> 0, appid |-> Null, changenumber |-> Null,
                              started |-> 0, data |-> FALSE]
    /\ UNCHANGED <<procVars, monVars, lifeVars, testVars, normVars, orderVars>>

\* #fetchProductInfo after its await: the i-th pending getProductInfo settles,
\* with data for the tracked app carrying changenumber dcn ("data"), with a
\* result that has no entry for it ("nodata"), or by rejecting ("reject").
FetchSettles(i, outcome, dcn) ==
    /\ i \in 1..Len(fetchQueue)
    /\ outcome # "data" => dcn = Null
    /\ fetchQueue' = [j \in 1..(Len(fetchQueue) - 1) |->
                         IF j < i THEN fetchQueue[j] ELSE fetchQueue[j + 1]]
    /\ lastStep' = IF outcome = "data"
                     THEN [kind |-> "fetch", tracked |-> TRUE, emitted |-> 1,
                           appid |-> DOTA2_APP_ID,
                           changenumber |-> Coalesce(dcn, fetchQueue[i]),
                           started |-> 0, data |-> TRUE]
                     ELSE [kind |-> "fetch", tracked |-> TRUE, emitted |-> 0,
                           appid |-> Null, changenumber |-> Null,
                           started |-> 0, data |-> FALSE]
    /\ UNCHANGED <<procVars, monVars, lifeVars, testVars, normVars, orderVars>>

\* ----------------------------------------------------------- JS values
\* The values a raw event's data is made of: undefined, null, strings and
\* objects, an object being its set of <<key, value>> entries.
Undefined == [kind |-> "undefined", s |-> "", e |-> {}]
JsNull == [kind |-> "null", s |-> "", e |-> {}]
Str(x) == [kind |-> "string", s |-> x, e |-> {}]
Obj(entries) == [kind |-> "object", s |-> "", e |-> entries]

EmptyObj == Obj({})

\* typeof v is 'undefined' or v is null.
Nullish(v) == v.kind \in {"undefined", "null"}

\* v?.key: undefined for a nullish v, for a value that is no object and for
\* an object without the key.
HasKey(v, key) == v.kind = "object" /\ \E p \in v.e : p[1] = key
Get(v, key) ==
    IF HasKey(v, key) THEN (CHOOSE p \in v.e : p[1] = key)[2] ELSE Undefined

\* a ?? b on values.
KeepLeft(a, b) == a
OrElse(a, b) == IF Nullish(a) THEN b ELSE a

\* /^\d+$/.test(key) for the keys used here.
NumericKeys == {"373301", "373302"}
NonDepotKeys == {"branches", "maxsize", "depotfromapp", "baselanguages"}

\* #extractChangedDepots: the entries with a numeric key whose value has
\* typeof 'object' (null included), outside the non-depot keys.
ExtractChangedDepots(depots) ==
    { [id |-> p[1],
       name |-> OrElse(Get(p[2], "name"), JsNull),
       maxsize |-> OrElse(Get(p[2], "maxsize"), JsNull)] :
      p \in { q \in depots.e : /\ q[1] \notin NonDepotKeys
                                /\ q[2].kind \in {"object", "null"}
                                /\ q[1] \in NumericKeys } }

\* #extractBranches: one entry per branch.
ExtractBranches(branches) ==
    { [name |-> p[1], buildId |-> OrElse(Get(p[2], "buildid"), JsNull)] :
      p \in branches.e }

\* The "extract app info" part of process(): what it makes of the event's
\* data.  Object.entries throws on undefined and null.
Normalize(data) ==
    LET appinfo      == OrElse(OrElse(Get(data, "appinfo"), data), EmptyObj)
        common       == OrElse(Get(appinfo, "common"), EmptyObj)
        depots       == OrElse(Get(appinfo, "depots"), EmptyObj)
        branches     == OrElse(Get(depots, "branches"), EmptyObj)
        publicBranch == OrElse(Get(branches, "public"), EmptyObj)
    IN [seen |-> TRUE,
        threw |-> Nullish(depots) \/ Nullish(branches),
        appName |-> OrElse(Get(common, "name"), Str("Dota 2")),
        buildId |-> OrElse(Get(publicBranch, "buildid"), JsNull),
        changedDepots |-> IF Nullish(depots) THEN {} ELSE ExtractChangedDepots(depots),
        branches |-> IF Nullish(branches) THEN {} ELSE ExtractBranches(branches)]

\* The data of the raw events fed to process(): every combination of present,
\* null and missing members down to the branches.
BranchInfo == Obj({<<"buildid", Str("b1")>>})
BranchesObjs ==
    { EmptyObj, Obj({<<"public", BranchInfo>>}), Obj({<<"public", JsNull>>}),
      Obj({<<"public", EmptyObj>>, <<"beta", BranchInfo>>}) }
DepotsObjs ==
    { Obj(base \cup br) :
        base \in SUBSET { <<"373301", Obj({<<"name", Str("d")>>})>>,
                          <<"373302", JsNull>>, <<"maxsize", Str("9")>> },
        br \in {{}} \cup { {<<"branches", b>>} : b \in BranchesObjs \cup {JsNull} } }
CommonObjs == { EmptyObj, Obj({<<"name", Str("Dota 2 Beta")>>}), JsNull }
AppInfos ==
    { Obj(c \cup dp \cup x) :
        c \in {{}} \cup { {<<"common", v>>} : v \in CommonObjs },
        dp \in {{}} \cup { {<<"depots", v>>} : v \in DepotsObjs \cup {JsNull} },
        x \in { {}, {<<"missingToken", Str("t")>>} } }
RawDatas ==
    {Undefined, JsNull} \cup AppInfos
        \cup { Obj({<<"appinfo", a>>}) : a \in AppInfos \cup {JsNull} }

\* Every optional nested field is absent: data is undefined or null, or it
\* is (or wraps, under appinfo) an object without common and depots.
Lacks(v) == ~HasKey(v, "appinfo") /\ ~HasKey(v, "common") /\ ~HasKey(v, "depots")
                                  /\ ~HasKey(v, "branches")
AllOptionalAbsent(data) ==
    \/ Nullish(data)
    \/ Lacks(data)
    \/ /\ ~HasKey(data, "common") /\ ~HasKey(data, "depots")
       /\ (Nullish(Get(data, "appinfo")) \/ Lacks(Get(data, "appinfo")))

NoResult == [seen |-> FALSE, threw |-> FALSE, appName |-> Undefined,
             buildId |-> Undefined, changedDepots |-> {}, branches |-> {}]

InitNorm ==
    /\ rawData = Undefined
    /\ normalized = NoResult

InitOrder ==
    /\ inFlight = 0
    /\ lastStarted = Null
    /\ prevStarted = Null

\* process() called with an event whose changenumber is absent and whose
\* data is data: nothing is deduplicated or persisted, the update is built.
ProcessData(data) ==
    /\ up /\ pc = "idle"
    /\ rawData' = data
    /\ normalized' = Normalize(data)
    /\ UNCHANGED <<procVars, monVars, lifeVars, feedVars, testVars, orderVars>>

\* ----------------------------------------------------------- runLiveMode
\* validateConfig({ isTest }): throws when the webhook URL is required and empty.
ValidateConfigNeverThrows(url, isTest) == FALSE
ValidateConfigThrows(url, isTest) == ~isTest /\ ~url

\* runLiveMode has passed validateConfig and wired the pipeline.
InitRunning ==
    /\ urlSet = TRUE
    /\ phase = "running"
    /\ exitCode = Null
    /\ shutdownRuns = 0
    /\ destroyCalls = 0
    /\ shutdownTrace = <<>>

\* The process has just been started in live mode, with or without a webhook
\* URL in its environment and with whatever state.json an earlier run left.
InitBoot ==
    /\ urlSet \in BOOLEAN
    /\ phase = "boot"
    /\ exitCode = Null
    /\ shutdownRuns = 0
    /\ destroyCalls = 0
    /\ shutdownTrace = <<>>

\* runLiveMode, from validateConfig() to monitor.connect(): a configuration
\* error exits with code 1 before anything is constructed; otherwise the
\* processor loads its cursor and the monitor starts its first logOn.
RunLiveMode ==
    /\ phase = "boot"
    /\ IF ValidateConfigThrows(urlSet, FALSE)
         THEN /\ phase' = "exited"
              /\ exitCode' = 1
              /\ up' = FALSE
              /\ UNCHANGED <<file, lastChangenumber, pc, pending, sendCount,
                             saveAttempted, runMax, heldMax, lastEvent, webhooks,
                             lastSend, monVars>>
         ELSE /\ phase' = "running"
              /\ exitCode' = exitCode
              /\ lastChangenumber' = LoadState(file)
              /\ runMax' = LoadState(file)
              /\ heldMax' = LoadState(file)
              /\ started' = TRUE
              /\ Connect(FALSE)
              /\ UNCHANGED <<up, file, pc, pending, sendCount, saveAttempted,
                             lastEvent, webhooks, lastSend>>
              /\ UNCHANGED <<connected, reconnectAttempts, timers, session, priming,
                             lastDelay, sinceLogin, disconnectCalled, readyOwed,
                             lastReady>>
    /\ UNCHANGED <<urlSet, shutdownRuns, destroyCalls, shutdownTrace, feedVars, testVars, normVars, orderVars>>

\* shutdown(signal), the SIGINT/SIGTERM handler, run to completion:
\* monitor.disconnect(); notifier.destroy(); process.exit(0), with no
\* try/catch around any step.  An exception thrown by client.logOff()
\* (logOffThrows) or by a webhook's destroy() (destroyThrows) leaves the
\* function at once; the uncaughtException handler logs it and the process
\* lives on with its signal handlers in place.
Shutdown(logOffThrows, destroyThrows) ==
    /\ phase = "running"
    /\ shutdownRuns < MaxSignals
    /\ shutdownRuns' = shutdownRuns + 1
    /\ destroyThrows => webhooks >= 1
    /\ IF logOffThrows
         THEN /\ ~destroyThrows
              /\ shutdownTrace' = <<"disconnect">>
              /\ UNCHANGED <<monVars, procVars, destroyCalls, phase, exitCode>>
         ELSE /\ DisconnectBody
              /\ destroyCalls' = destroyCalls + 1
              /\ IF destroyThrows
                   THEN /\ shutdownTrace' = <<"disconnect", "destroy">>
                        /\ UNCHANGED <<procVars, phase, exitCode>>
                   ELSE /\ shutdownTrace' = <<"disconnect", "destroy", "exit">>
                        /\ webhooks' = 0
                        /\ phase' = "exited"
                        /\ exitCode' = 0
                        /\ up' = FALSE
                        /\ UNCHANGED <<file, lastChangenumber, pc, pending, sendCount,
                                       saveAttempted, runMax, heldMax, lastEvent,
                                       lastSend>>
    /\ UNCHANGED <<urlSet, feedVars, testVars, normVars, orderVars>>

\* Live mode: runTestMode is not entered.
InitOff ==
    /\ testPc = "off"
    /\ upstream = {}

Init == InitProc /\ InitMon /\ InitRunning /\ InitFeed /\ InitOff /\ InitNorm /\ InitOrder

\* ----------------------------------------------------------- runTestMode
\* The process has just been started with --test; state.json is missing or
\* holds the cursor an earlier run persisted from an upstream event.
InitTest ==
    /\ InitProcFrom({1}, {Absent} \cup (1..MaxCn))
    /\ InitMon /\ InitBoot /\ InitFeed /\ InitNorm /\ InitOrder
    /\ testPc = "boot"
    /\ upstream = IF LoadState(file) = Null THEN {} ELSE {file}

\* process.exit(code) out of runTestMode, leaving its position at.
TestExit(code, at) ==
    /\ phase' = "exited"
    /\ exitCode' = code
    /\ up' = FALSE
    /\ testPc' = at

\* runTestMode up to its first await: validateConfig, construction of the
\* three components, the 30 s timer and monitor.connect().  A configuration
\* error lands in the catch, which exits with code 1.
TestStart ==
    /\ testPc = "boot"
    /\ IF ValidateConfigThrows(urlSet, FALSE)
         THEN /\ TestExit(1, "failed")
              /\ UNCHANGED <<file, lastChangenumber, pc, pending, sendCount,
                             saveAttempted, runMax, heldMax, lastEvent, webhooks,
                             lastSend, monVars>>
         ELSE /\ phase' = "running"
              /\ testPc' = "waiting"
              /\ lastChangenumber' = LoadState(file)
              /\ runMax' = LoadState(file)
              /\ heldMax' = LoadState(file)
              /\ started' = TRUE
              /\ Connect(FALSE)
              /\ UNCHANGED <<up, exitCode, file, pc, pending, sendCount,
                             saveAttempted, lastEvent, webhooks, lastSend>>
              /\ UNCHANGED <<connected, reconnectAttempts, timers, session, priming,
                             lastDelay, sinceLogin, disconnectCalled, readyOwed,
                             lastReady>>
    /\ UNCHANGED <<urlSet, shutdownRuns, destroyCalls, shutdownTrace, upstream,
                   feedVars, normVars, orderVars>>

\* The 30 s timer of the ready wait fires before any 'ready': the promise
\* rejects, the catch of runTestMode logs and calls process.exit(1).
TestTimeout ==
    /\ testPc = "waiting"
    /\ lastReady = "none"
    /\ TestExit(1, "timedout")
    /\ UNCHANGED <<file, lastChangenumber, pc, pending, sendCount, saveAttempted,
                   runMax, heldMax, lastEvent, webhooks, lastSend, monVars,
                   urlSet, shutdownRuns, destroyCalls, shutdownTrace, upstream,
                   feedVars, normVars, orderVars>>

\* runTestMode from the 'ready' that resolves the wait to its next await:
\* the PICS cache has data for the app (hasData) carrying changenumber dcn, or
\* has none and the function throws into its catch.  process() is called with
\* dcn ?? 0 and, when that is deduplicated, again with that number plus one.
\* w is what the file system does with the write.
TestContinue(hasData, dcn, w) ==
    /\ testPc = "waiting"
    /\ lastReady # "none"
    /\ ~hasData => (dcn = Null /\ w = "ok")
    /\ IF ~hasData
         THEN /\ TestExit(1, "failed")
              /\ UNCHANGED <<file, lastChangenumber, pending, saveAttempted, runMax,
                             heldMax, lastEvent, upstream>>
         ELSE LET ev       == Coalesce(dcn, 0)
                  first    == ~IsDuplicate(ev, lastChangenumber)
                  forcedCn == ev + 1
                  forced   == ~first /\ ~IsDuplicate(forcedCn, lastChangenumber)
                  cn       == IF first THEN ev ELSE forcedCn
                  admitted == first \/ forced
                  persist  == admitted /\ ShouldPersist(cn)
                  newLast  == IF persist THEN cn ELSE lastChangenumber
                  newFile  == IF persist THEN SaveState(file, cn, w) ELSE file
              IN /\ ~persist => w = "ok"
                 /\ lastChangenumber' = newLast
                 /\ file' = newFile
                 /\ saveAttempted' = IF persist THEN saveAttempted \cup {cn}
                                                ELSE saveAttempted
                 /\ pending' = IF admitted THEN cn ELSE Null
                 /\ runMax' = Max(runMax, ev)
                 /\ heldMax' = Max(heldMax, newLast)
                 /\ lastEvent' = [cn |-> cn, saved |-> IF persist THEN w ELSE "none",
                                  before |-> lastChangenumber, fileBefore |-> file,
                                  maxBefore |-> runMax, admitted |-> admitted,
                                  after |-> newLast, fileAfter |-> newFile,
                                  seen |-> TRUE]
                 /\ upstream' = IF dcn = Null THEN upstream ELSE upstream \cup {dcn}
                 /\ testPc' = "sending"
                 /\ UNCHANGED <<up, phase, exitCode>>
    /\ UNCHANGED <<pc, sendCount, webhooks, lastSend, monVars, urlSet, shutdownRuns,
                   destroyCalls, shutdownTrace, feedVars, normVars, orderVars>>

\* The end of runTestMode: the awaited sendUpdate (when there was an update to
\* send) has settled, whatever it returned; then monitor.disconnect(),
\* notifier.destroy() and process.exit(0).
TestFinish ==
    /\ testPc = "sending"
    /\ TestExit(0, "done")
    /\ DisconnectBody
    /\ webhooks' = 0
    /\ pending' = Null
    /\ UNCHANGED <<file, lastChangenumber, pc, sendCount, saveAttempted, runMax,
                   heldMax, lastEvent, lastSend, urlSet, shutdownRuns, destroyCalls,
                   shutdownTrace, upstream, feedVars, normVars, orderVars>>

NextProc ==
    \/ \E cn \in Changenumbers, w \in WriteOutcomes : Dota2UpdateHandler(cn, w)
    \/ \E okCount \in 0..MaxWebhooks, embedOk \in BOOLEAN : SendUpdate(okCount, embedOk)
    \/ Crash
    \/ Restart

\* The pipeline: processor, state file and hand-off to the sink.
SpecProc == Init /\ [][NextProc]_vars

\* The pipeline with crashes that fall inside a cursor save.
NextCrash ==
    \/ \E cn \in Changenumbers, w \in WriteOutcomes : Dota2UpdateHandler(cn, w)
    \/ \E okCount \in 0..MaxWebhooks, embedOk \in BOOLEAN : SendUpdate(okCount, embedOk)
    \/ \E cn \in Changenumbers, opened \in BOOLEAN, k \in 0..Len(Serialize(Null)) :
          CrashDuringSave(cn, opened, k)
    \/ Restart
SpecCrash == Init /\ [][NextCrash]_vars

\* The pipeline of one run, with any number of webhooks configured (none when
\* the constructor found no URL or could not build the clients).
InitSink == InitProcWith(0..MaxWebhooks) /\ InitMon /\ InitRunning /\ InitFeed
               /\ InitOff /\ InitNorm /\ InitOrder
NextSink ==
    \/ \E cn \in Changenumbers, w \in WriteOutcomes : Dota2UpdateHandler(cn, w)
    \/ \E okCount \in 0..MaxWebhooks, embedOk \in BOOLEAN : SendUpdate(okCount, embedOk)
SpecSink == InitSink /\ [][NextSink]_vars

NextMon ==
    \/ StartConnect
    \/ LoggedOn
    \/ \E ok \in BOOLEAN : PrimingSettled(ok)
    \/ ErrorEvent
    \/ \E relogin \in BOOLEAN : DisconnectedEvent(relogin)
    \/ TimerFires
    \/ Disconnect

\* Test mode from process start to process exit; the monitor's events come
\* while runTestMode waits for 'ready'.
NextTest ==
    \/ TestStart
    \/ TestTimeout
    \/ \E hasData \in BOOLEAN, dcn \in Changenumbers, w \in WriteOutcomes :
          TestContinue(hasData, dcn, w)
    \/ TestFinish
    \/ testPc = "waiting" /\ lastReady = "none" /\ LoggedOn
    \/ testPc = "waiting" /\ lastReady = "none" /\ \E ok \in BOOLEAN : PrimingSettled(ok)
    \/ testPc = "waiting" /\ lastReady = "none" /\ ErrorEvent
    \/ testPc = "waiting" /\ lastReady = "none"
          /\ \E relogin \in BOOLEAN : DisconnectedEvent(relogin)
    \/ testPc = "waiting" /\ lastReady = "none" /\ TimerFires
SpecTest == InitTest /\ [][NextTest]_vars

\* One run of the pipeline with deliveries overlapping later events.
NextOrder ==
    \/ \E cn \in Changenumbers, w \in WriteOutcomes : UpdateArrives(cn, w)
    \/ SendSettles
SpecOrder == Init /\ [][NextOrder]_vars

\* The session manager with the PICS feed of its client, which delivers app
\* updates and changelists only while it holds a session.
NextStop ==
    \/ NextMon
    \/ session /\ \E appid \in AppIds : AppUpdate(appid, 1)
    \/ session /\ \E apps \in SUBSET AppIds : Changelist(1, apps)
    \/ \E i \in 1..MaxFetches, outcome \in {"data", "nodata", "reject"} :
          FetchSettles(i, outcome, Null)
SpecStop == Init /\ [][NextStop]_vars

\* The normalisation of process() over the raw data it can be given.
NextNorm == \E data \in RawDatas : ProcessData(data)
SpecNorm == Init /\ [][NextNorm]_vars

\* The PICS feed of the monitor: app updates, changelists and the on-demand
\* fetches they start.
NextFeed ==
    \/ \E appid \in AppIds, dcn \in Changenumbers : AppUpdate(appid, dcn)
    \/ \E cn \in 0..MaxCn, apps \in SUBSET AppIds : Changelist(cn, apps)
    \/ \E i \in 1..MaxFetches, outcome \in {"data", "nodata", "reject"},
          dcn \in Changenumbers : FetchSettles(i, outcome, dcn)
SpecFeed == Init /\ [][NextFeed]_vars

\* Live mode from process start to process exit: start-up, the session
\* manager's events, the dota2Update handler and the stop signals.
InitLife == InitProcFrom({1}, {Absent, Corrupt, 1}) /\ InitMon /\ InitBoot /\ InitFeed
               /\ InitOff /\ InitNorm /\ InitOrder
NextLife ==
    \/ RunLiveMode
    \/ \E logOffThrows \in BOOLEAN, destroyThrows \in BOOLEAN :
          Shutdown(logOffThrows, destroyThrows)
    \/ phase = "running" /\ LoggedOn
    \/ phase = "running" /\ \E ok \in BOOLEAN : PrimingSettled(ok)
    \/ phase = "running" /\ ErrorEvent
    \/ phase = "running" /\ \E relogin \in BOOLEAN : DisconnectedEvent(relogin)
    \/ phase = "running" /\ TimerFires
    \/ phase = "running" /\ \E w \in WriteOutcomes : Dota2UpdateHandler(1, w)
    \/ phase = "running" /\ \E okCount \in 0..1, embedOk \in BOOLEAN :
                                 SendUpdate(okCount, embedOk)
SpecLife == InitLife /\ [][NextLife]_vars

\* The session manager: SteamMonitor, its client and its reconnect timers.
SpecMon == Init /\ [][NextMon]_vars

\* The session manager on Node's event loop: a setTimeout callback that is due
\* is eventually run.
SpecMonFair == Init /\ [][NextMon]_vars /\ WF_vars(TimerFires)

\* =================================================================== claims
\* An event with a known sequence number was just processed.
KnownEvent == lastEvent.seen /\ lastEvent.cn # Null

\* C1 (as claimed): an event with a non-negative changenumber is admitted
\* exactly when its changenumber is strictly greater than the running maximum
\* of the loaded cursor and of every changenumber processed before it in this
\* run (no cursor and no earlier event: every changenumber is greater).
C1_MonotonicAdmission ==
    KnownEvent => (lastEvent.admitted <=> lastEvent.cn > lastEvent.maxBefore)

\* C2 (as claimed): over the whole lifetime, crashes and restarts included,
\* sendUpdate is invoked at most once for each sequence number.
C2_AtMostOnceDelivery ==
    \A n \in 0..MaxCn : sendCount[n] <= 1

\* C3 (as claimed): with a persisted cursor C loaded, an event with
\* changenumber <= C is rejected and leaves the persisted cursor unchanged,
\* and an event with changenumber C+1 is admitted and, unless the write itself
\* fails, makes the persisted cursor C+1.
C3_RestartIdempotence ==
    (KnownEvent /\ lastEvent.before # Null /\ lastEvent.fileBefore = lastEvent.before) =>
        /\ lastEvent.cn <= lastEvent.before =>
              ~lastEvent.admitted /\ lastEvent.fileAfter = lastEvent.fileBefore
        /\ lastEvent.cn = lastEvent.before + 1 =>
              /\ lastEvent.admitted
              /\ lastEvent.saved = "ok" => lastEvent.fileAfter = lastEvent.cn

\* C4 (as claimed): sendUpdate has been called for a known sequence number n
\* only if #saveState was attempted for n before.
C4_PersistBeforeHandoff ==
    \A n \in 0..MaxCn : sendCount[n] > 0 => n \in saveAttempted

\* C5 (as claimed): the cursor, as loaded at each start-up and as held in
\* memory, never falls below a value it had before, over the whole lifetime.
C5_CursorNeverDecreases ==
    up => lastChangenumber >= heldMax

\* C5 (amended): within one process run the cursor held in memory never
\* decreases, whatever events arrive and whether or not the saves succeed.
C5_CursorMonotonicWithinRun ==
    [][(up /\ up') => lastChangenumber' >= lastChangenumber]_vars

\* C5 witness: the in-memory cursor advanced from one value to a larger one
\* although the save failed.
C5_Witness ==
    /\ lastEvent.seen /\ lastEvent.admitted
    /\ lastEvent.before >= 1 /\ lastEvent.after > lastEvent.before
    /\ lastEvent.saved = "fail"

\* C6: an event with no sequence number is admitted whatever the cursor, and
\* leaves the in-memory cursor and state.json as they were.
C6_UnknownSequencePassThrough ==
    (lastEvent.seen /\ lastEvent.cn = Null) =>
        /\ lastEvent.admitted
        /\ lastEvent.after = lastEvent.before
        /\ lastEvent.fileAfter = lastEvent.fileBefore

\* C6 witness: an event without sequence number was admitted, and awaits
\* hand-off, while a cursor is held and persisted.
C6_Witness ==
    /\ lastEvent.seen /\ lastEvent.cn = Null /\ lastEvent.admitted
    /\ lastEvent.before >= 1 /\ lastEvent.fileBefore >= 1
    /\ pc = "handoff" /\ pending = Null

\* C7 (as claimed): with no cursor stored (no file, or an unreadable one), the
\* first event with integer sequence s >= 0 is admitted and the cursor becomes
\* s in memory and, unless the write itself fails, in state.json.
C7_FirstEventSetsCursor ==
    (KnownEvent /\ lastEvent.before = Null
                /\ lastEvent.fileBefore \in {Absent, Corrupt}) =>
        /\ lastEvent.admitted
        /\ lastEvent.after = lastEvent.cn
        /\ lastEvent.saved \notin {"fail", "torn"} => lastEvent.fileAfter = lastEvent.cn

\* C8 (as claimed): no reconnect timer calls connect() while a logOn attempt
\* is in flight, and at most one logOn attempt is outstanding at any time.
C8_SingleConnectInFlight ==
    logOns <= 1 /\ ~connectInFlight

\* C9 (as claimed): connect() never runs after disconnect() has been called.
C9_NoConnectAfterDisconnect ==
    ~connectAfterDisconnect

\* The delays of consecutive failures: base, then doubling up to the ceiling.
ExpectedDelay[k \in 1..(MaxAttempts + 1)] ==
    IF k = 1 THEN BASE_RECONNECT_DELAY
    ELSE Min(2 * ExpectedDelay[k - 1], MAX_RECONNECT_DELAY)

\* C10: the k-th #scheduleReconnect since the last login computed the delay
\* min(5000 * 2^(k-1), 300000) and left the attempt counter at k; after
\* 'loggedOn' the counter is 0 again.
C10_BackoffGrowthAndCeiling ==
    /\ reconnectAttempts = sinceLogin
    /\ sinceLogin >= 1 => lastDelay = ExpectedDelay[sinceLogin]

\* C10 witness: the seventh consecutive failure, where the ceiling applies.
C10_Witness ==
    sinceLogin = 7 /\ lastDelay = MAX_RECONNECT_DELAY /\ timers >= 1

\* C11: every 'error' or 'disconnected' event is eventually followed by a
\* connect() call or by a 'loggedOn', unless disconnect() is called first; and
\* while such an event is unanswered a reconnect timer is pending.
C11_ErrorLeadsToReconnect ==
    /\ [](awaiting => timers >= 1)
    /\ awaiting ~> (~awaiting \/ disconnectCalled)

\* C11 witness: after a failure since the last login the timer has fired and
\* called connect(): the attempt is in flight and no timer is left.
C11_Witness ==
    /\ sinceLogin >= 1 /\ ~awaiting /\ ~disconnectCalled
    /\ logOns >= 1 /\ timers = 0 /\ ~connected

\* C12: every 'loggedOn' gets exactly one 'ready', emitted when its priming
\* fetch settles and not before, whether the fetch succeeded or failed; the
\* settling changes neither #connected nor the reconnect timers and counter.
C12_OneReadyPerLogin ==
    /\ [](readyOwed = priming)
    /\ [][priming' < priming =>
             /\ readyOwed' = readyOwed - 1
             /\ connected' = connected
             /\ timers' = timers
             /\ reconnectAttempts' = reconnectAttempts]_vars

\* C12 witness: the priming fetch failed, 'ready' was emitted all the same,
\* and the monitor is still connected with no reconnect armed.
C12_Witness ==
    /\ lastReady = "unprimed" /\ readyOwed = 0 /\ priming = 0
    /\ connected /\ session /\ timers = 0

\* C13 (as claimed): a delivery that reached no webhook is reported by
\* sendUpdate as false (nothing is thrown), the cursor stays where process()
\* left it, the handler is ready for the next event, and the sink has not been
\* invoked more than once for that sequence number.
C13_FailedDeliveryIsReported ==
    (lastSend.seen /\ ~lastSend.delivered) =>
        /\ lastSend.returned = "false"
        /\ lastChangenumber = lastEvent.after
        /\ pc = "idle"
        /\ lastEvent.cn # Null => sendCount[lastEvent.cn] <= 1

\* C14 (as claimed): sendUpdate returns true exactly when the send succeeded
\* for at least one configured webhook.
C14_TrueIffDelivered ==
    lastSend.seen => (lastSend.returned = "true" <=> lastSend.delivered)

\* C15 (as claimed): every run of the shutdown path calls monitor.disconnect()
\* first and notifier.destroy() second, whether or not a step throws.
C15_ShutdownRunsBothSteps ==
    shutdownRuns >= 1 =>
        /\ Len(shutdownTrace) >= 2
        /\ shutdownTrace[1] = "disconnect"
        /\ shutdownTrace[2] = "destroy"

\* C16 (as claimed): however many stop signals are delivered, the shutdown
\* path runs exactly once; in particular monitor.disconnect() and
\* notifier.destroy() are never called a second time.
C16_ShutdownExactlyOnce ==
    shutdownRuns <= 1 /\ destroyCalls <= 1

\* C17: with no webhook URL the process exits with code 1 out of
\* validateConfig, before monitor.connect() is called; and the process exits
\* in no other way than that or the end of a shutdown: no transport error,
\* priming failure, unreadable or unwritable cursor or failed delivery ends it.
C17_OnlyConfigErrorIsFatal ==
    /\ (~urlSet /\ phase # "boot") =>
           (phase = "exited" /\ exitCode = 1 /\ ~started /\ logOns = 0)
    /\ phase = "exited" =>
           \/ exitCode = 1 /\ ~urlSet /\ shutdownRuns = 0
           \/ exitCode = 0 /\ urlSet /\ shutdownTrace = <<"disconnect", "destroy", "exit">>
    /\ phase # "exited" => exitCode = Null

\* C17 witness: started without a webhook URL, the process has exited with
\* code 1 and never called connect().
C17_Witness ==
    ~urlSet /\ phase = "exited" /\ exitCode = 1 /\ ~started /\ logOns = 0

\* C18: every event the monitor emits is for the tracked app; an appUpdate
\* for another app and a changelist that does not affect the tracked app emit
\* nothing and start no fetch; a changelist that affects it starts exactly one
\* fetch and emits nothing itself; a settling fetch emits one event when it
\* returned data for the tracked app and none otherwise.
C18_OnlyTrackedAppEmits ==
    /\ [](/\ lastStep.emitted = 1 => lastStep.appid = DOTA2_APP_ID
          /\ (lastStep.kind \in {"appUpdate", "changelist"} /\ ~lastStep.tracked) =>
                 (lastStep.emitted = 0 /\ lastStep.started = 0)
          /\ (lastStep.kind = "appUpdate" /\ lastStep.tracked) =>
                 (lastStep.emitted = 1 /\ lastStep.started = 0)
          /\ (lastStep.kind = "changelist" /\ lastStep.tracked) =>
                 (lastStep.emitted = 0 /\ lastStep.started = 1)
          /\ lastStep.kind = "fetch" =>
                 /\ lastStep.started = 0
                 /\ lastStep.emitted = (IF lastStep.data THEN 1 ELSE 0))
    /\ [][Len(fetchQueue') = Len(fetchQueue) + lastStep'.started
                               - (IF lastStep'.kind = "fetch" THEN 1 ELSE 0)]_vars

\* C18 witness: a changelist affecting the tracked app started a fetch, and
\* that fetch has returned data and emitted the one event, with the
\* changelist's number because the data carried none.
C18_Witness ==
    /\ lastStep.kind = "fetch" /\ lastStep.emitted = 1
    /\ lastStep.changenumber = 2 /\ fetchQueue = <<>>

\* C19: after a crash inside a cursor save, state.json is read at the next
\* start-up either as no cursor at all or as the cursor persisted before the
\* save or as the cursor being written, and the restarted processor holds
\* exactly what was read: a partial write is never taken for a cursor.
C19_PartialWriteNeverValid ==
    lastEvent.saved = "crash" =>
        /\ LoadState(file) \in {Null, LoadState(lastEvent.fileBefore), lastEvent.cn}
        /\ file = Corrupt => LoadState(file) = Null
        /\ up => lastChangenumber = LoadState(file)

\* C19 witness: a valid cursor was on disk, the crash left a partial write
\* over it, and the restarted processor runs without a cursor.
C19_Witness ==
    /\ up /\ lastEvent.saved = "crash"
    /\ lastEvent.fileBefore >= 1 /\ lastEvent.cn > lastEvent.fileBefore
    /\ file = Corrupt /\ lastChangenumber = Null

\* C20 (as claimed): when the cursor write fails the event is still admitted
\* and handed on and the in-memory cursor is advanced to it; while memory is
\* ahead of state.json, an event not above the in-memory cursor is rejected
\* and an event above it is admitted; and state.json never holds a cursor
\* above one the processor has held, so a restart can repeat an update but not
\* lose one.
C20_WriteFailureOnlyRisksDuplicate ==
    /\ lastEvent.saved \in {"fail", "torn"} =>
           /\ lastEvent.admitted
           /\ lastEvent.after = lastEvent.cn
           /\ pending = lastEvent.cn \/ sendCount[lastEvent.cn] >= 1
    /\ (/\ lastEvent.seen /\ lastEvent.saved # "crash"
        /\ lastEvent.before # Null
        /\ lastEvent.before # LoadState(lastEvent.fileBefore)
        /\ lastEvent.cn # Null) =>
           (lastEvent.admitted <=> lastEvent.cn > lastEvent.before)
    /\ LoadState(file) # Null => LoadState(file) <= heldMax

\* C21 (as claimed): the processor restarted after a crash holds the cursor of
\* a readable state.json and no cursor when the file is missing or unreadable;
\* and with the file missing or unreadable and no cursor in memory, an event
\* with a known sequence is admitted and re-creates the cursor, in memory and,
\* when the write succeeds, in state.json.
C21_LoadFallsBackAndRecovers ==
    /\ (up /\ lastEvent.saved = "crash") =>
           lastChangenumber = (IF file \in {Absent, Corrupt} THEN Null ELSE file)
    /\ (/\ lastEvent.seen /\ lastEvent.saved # "crash"
        /\ lastEvent.fileBefore \in {Absent, Corrupt}
        /\ lastEvent.before = Null
        /\ lastEvent.cn # Null) =>
           /\ lastEvent.admitted
           /\ lastEvent.after = lastEvent.cn
           /\ lastEvent.saved = "ok" => lastEvent.fileAfter = lastEvent.cn
           /\ lastEvent.saved \in {"ok", "fail", "torn"}

\* C22 (as claimed): when the deadline of the initial connect-and-prime wait
\* passes without a 'ready', the process keeps running and a reconnect is
\* scheduled.
C22_DeadlineFeedsBackoff ==
    testPc = "timedout" => (phase # "exited" /\ timers >= 1)

\* The largest member of a non-empty set of integers.
MaxOfSet(S) == CHOOSE x \in S : \A y \in S : y <= x

\* C25 (as claimed): the cursor in state.json is a changenumber that upstream
\* data has carried, so a process started from state.json does not reject the
\* next genuine update, the one above everything upstream has carried so far.
C25_CursorOnlyFromUpstream ==
    LoadState(file) # Null =>
        /\ LoadState(file) \in upstream
        /\ upstream # {} => ~IsDuplicate(MaxOfSet(upstream) + 1, LoadState(file))

\* C23: for a raw event with every optional nested field absent, process()
\* does not throw and returns appName 'Dota 2', buildId null and empty
\* changedDepots and branches lists.
C23_NormalizationDefaults ==
    (normalized.seen /\ AllOptionalAbsent(rawData)) =>
        /\ ~normalized.threw
        /\ normalized.appName = Str("Dota 2")
        /\ normalized.buildId = JsNull
        /\ normalized.changedDepots = {}
        /\ normalized.branches = {}

\* C23 witness: the data wraps a null appinfo and carries nothing else of
\* the optional members; process() has returned the defaults.
C23_Witness ==
    /\ normalized.seen /\ ~normalized.threw
    /\ rawData = Obj({<<"appinfo", JsNull>>})
    /\ normalized.appName = Str("Dota 2") /\ normalized.branches = {}

\* C24 (as claimed): within one run, each start of sendUpdate for a known
\* sequence number is for a number strictly greater than the one of the
\* start before it, deliveries still awaiting or not.
C24_SinkInvokedInOrder ==
    (prevStarted # Null /\ lastStarted # Null) => prevStarted < lastStarted

\* A step that emits 'ready', and a step that emits 'dota2Update'.
ReadyEmitted == priming' < priming /\ readyOwed' < readyOwed
UpdateEmitted ==
    /\ lastStep'.emitted = 1
    /\ lastStep' # lastStep \/ Len(fetchQueue') < Len(fetchQueue)

\* C26 (as claimed): once disconnect() has been called, no step emits
\* 'ready' and no step emits 'dota2Update'.
C26_SilentAfterDisconnect ==
    [][disconnectCalled => (~ReadyEmitted /\ ~UpdateEmitted)]_vars
====
